---- MODULE Spec2Model ----
(***************************************************************************)
(* Trade-safety gate (AutoTradingController), risk ledger (RiskManager)    *)
(* and the unattended trading loop (AutoTrader) of brightwaysbot23.        *)
(*                                                                         *)
(* Units.  Scores are integers 0..100.  Probabilities and confidences are  *)
(* percentages (0.55 is 55).  Sentiment is a percentage in -100..100.      *)
(* Money is in cents (MAX_STAKE 5.0 is 500).  Time is in whole seconds.    *)
(***************************************************************************)
EXTENDS Integers, Sequences, FiniteSets, TLC

(* ------------------------------ bounds -------------------------------- *)
\* largest loss streak the gate specification starts from
MaxStreak == 3
\* outcomes recorded through the controller's API in SpecCtl
MaxOutcomes == 6
\* evaluations made through the controller's API in SpecCtl
MaxEvals == 2
\* start_auto_trading() coroutines that enter a session in Spec
MaxTasks == 2
\* loop iterations all coroutines together may begin in Spec
MaxIter == 3
\* positions closed through the RiskManager's API in SpecRisk
MaxCloses == 3
\* ten-second steps the clock makes in SpecRisk
MaxTicks == 3
\* calls made on the positions of the RiskManager in SpecPos
MaxCalls == 5
\* get_trading_status() calls, and recorded wins and losses, in SpecStatus
MaxStatus == 2

(* ------------------------- program constants --------------------------- *)
DEFAULT_STAKE == 100
MAX_STAKE == 500
MIN_TRADE_INTERVAL == 30
MAX_CONCURRENT_TRADES == 3
MAX_DRAWDOWN_PERCENT == 20
STOP_LOSS_PERCENT == 5
TRAILING_STOP_LOSS_PERCENT == 2
TAKE_PROFIT_PERCENT == 10
START_BALANCE == 1000000
\* AutoTradingController.__init__ thresholds
DEFAULT_MIN_SAFETY_SCORE == 40
DEFAULT_MIN_PROFIT_PROBABILITY == 55
DEFAULT_MAX_LOSS_PROBABILITY == 45
DEFAULT_MIN_CONFIDENCE == 60
\* literals of _make_trading_decision and record_trade_outcome
NEUTRAL_SENTIMENT_BAND == 10
CONSECUTIVE_LOSS_LIMIT == 3
MIN_ENSEMBLE_CONFIDENCE == 70
AUTO_PAUSE_LOSSES == 5
MIN_STAKE == 50

(* ------------------------------ helpers -------------------------------- *)
Abs(x) == IF x < 0 THEN -x ELSE x
Min(a, b) == IF a < b THEN a ELSE b
Max(a, b) == IF a > b THEN a ELSE b
Clamp(lo, hi, x) == Max(lo, Min(hi, x))

RECURSIVE GCD(_, _)
GCD(a, b) == IF b = 0 THEN a ELSE GCD(b, a % b)

\* exact fractions <<numerator, denominator>>, kept in lowest terms
Frac(n, d) == LET g == GCD(n, d) IN <<n \div g, d \div g>>
FracMul(f, n, d) == LET g1 == GCD(f[1], d)
                        g2 == GCD(n, f[2])
                    IN  Frac((f[1] \div g1) * (n \div g2), (f[2] \div g2) * (d \div g1))

\* Python round(x) of the fraction f: nearest integer, ties to even
RoundHalfEven(f) ==
    LET q == f[1] \div f[2]
        r == f[1] % f[2]
    IN  IF 2 * r < f[2] THEN q
        ELSE IF 2 * r > f[2] THEN q + 1
        ELSE IF q % 2 = 0 THEN q ELSE q + 1

(* --------------------------- RiskManager ------------------------------- *)
\* RiskManager.__init__
RiskManagerInit ==
    [ active_positions |-> << >>,
      daily_stats |-> [ trades |-> 0, wins |-> 0, losses |-> 0, total_pnl |-> 0,
                        max_drawdown |-> 0,
                        highest_balance |-> START_BALANCE,
                        daily_start_balance |-> START_BALANCE ],
      max_concurrent_trades |-> MAX_CONCURRENT_TRADES,
      max_stake |-> MAX_STAKE,
      stop_loss_percent |-> STOP_LOSS_PERCENT,
      trailing_stop_loss_percent |-> TRAILING_STOP_LOSS_PERCENT,
      take_profit_percent |-> TAKE_PROFIT_PERCENT,
      max_drawdown_percent |-> MAX_DRAWDOWN_PERCENT ]

\* RiskManager._calculate_drawdown, in whole percent (rounded down)
calculate_drawdown(rm) ==
    LET start == rm.daily_stats.daily_start_balance
        current_balance == start + rm.daily_stats.total_pnl
        peak_balance == IF current_balance > start THEN current_balance ELSE start
    IN  IF rm.daily_stats.trades = 0 THEN 0
        ELSE IF peak_balance = 0 THEN 0
        ELSE Max(0, ((peak_balance - current_balance) * 100) \div peak_balance)

\* RiskManager._get_last_trade_time; -1 stands for None
get_last_trade_time(rm) ==
    LET ids == DOMAIN rm.active_positions
    IN  IF ids = {} THEN -1
        ELSE CHOOSE t \in {rm.active_positions[i].entry_time : i \in ids} :
                 \A i \in ids : rm.active_positions[i].entry_time <= t

\* mutant: the stake limit is checked before the number of open positions
can_place_trade_stake_first(rm, stake, t) ==
    LET current_balance == rm.daily_stats.daily_start_balance + rm.daily_stats.total_pnl
        last_trade_time == get_last_trade_time(rm)
    IN  IF current_balance <= 0
          THEN [allowed |-> FALSE, reason |-> "Account balance is zero or negative"]
        ELSE IF stake > rm.max_stake
          THEN [allowed |-> FALSE, reason |-> "Stake exceeds maximum allowed"]
        ELSE IF Cardinality(DOMAIN rm.active_positions) >= rm.max_concurrent_trades
          THEN [allowed |-> FALSE, reason |-> "Maximum concurrent trades reached"]
        ELSE IF calculate_drawdown(rm) >= rm.max_drawdown_percent
          THEN [allowed |-> FALSE, reason |-> "Maximum drawdown reached"]
        ELSE IF rm.trailing_stop_loss_percent <= 0
          THEN [allowed |-> FALSE, reason |-> "Trailing Stop Loss Percent must be greater than 0"]
        ELSE IF last_trade_time > 0 /\ (t - last_trade_time) < MIN_TRADE_INTERVAL
          THEN [allowed |-> FALSE, reason |-> "Minimum trade interval not met"]
        ELSE [allowed |-> TRUE, reason |-> "none"]

\* RiskManager.can_place_trade at time t
can_place_trade(rm, stake, t) ==
    LET current_balance == rm.daily_stats.daily_start_balance + rm.daily_stats.total_pnl
        last_trade_time == get_last_trade_time(rm)
    IN  IF current_balance <= 0
          THEN [allowed |-> FALSE, reason |-> "Account balance is zero or negative"]
        ELSE IF Cardinality(DOMAIN rm.active_positions) >= rm.max_concurrent_trades
          THEN [allowed |-> FALSE, reason |-> "Maximum concurrent trades reached"]
        ELSE IF stake > rm.max_stake
          THEN [allowed |-> FALSE, reason |-> "Stake exceeds maximum allowed"]
        ELSE IF calculate_drawdown(rm) >= rm.max_drawdown_percent
          THEN [allowed |-> FALSE, reason |-> "Maximum drawdown reached"]
        ELSE IF rm.trailing_stop_loss_percent <= 0
          THEN [allowed |-> FALSE, reason |-> "Trailing Stop Loss Percent must be greater than 0"]
        ELSE IF last_trade_time > 0 /\ (t - last_trade_time) < MIN_TRADE_INTERVAL
          THEN [allowed |-> FALSE, reason |-> "Minimum trade interval not met"]
        ELSE [allowed |-> TRUE, reason |-> "none"]

\* mutant: the stop-loss price is a percentage of the entry price
calculate_stop_loss_of_entry(rm, entry_price, stake) == entry_price * (100 - rm.stop_loss_percent)

\* RiskManager._calculate_stop_loss: entry_price - stake * (stop_loss_percent / 100),
\* in hundredths of a cent so that the percentage is exact
calculate_stop_loss(rm, entry_price, stake) == entry_price * 100 - stake * rm.stop_loss_percent

\* RiskManager._calculate_take_profit, in hundredths of a cent
calculate_take_profit(rm, entry_price, stake) == entry_price * 100 + stake * rm.take_profit_percent

\* RiskManager.add_position at time t
add_position(rm, contract_id, stake, entry_price, t) ==
    LET position == [ contract_id |-> contract_id, initial_stake |-> stake,
                      current_stake |-> stake, entry_price |-> entry_price,
                      initial_pnl |-> rm.daily_stats.total_pnl, entry_time |-> t,
                      stop_loss |-> calculate_stop_loss(rm, entry_price, stake),
                      take_profit |-> calculate_take_profit(rm, entry_price, stake) ]
    IN  [rm EXCEPT !.active_positions =
            [i \in DOMAIN rm.active_positions \cup {contract_id} |->
                IF i = contract_id THEN position ELSE rm.active_positions[i]]]

\* RiskManager._should_stop_loss
should_stop_loss(position) ==
    IF "current_price" \notin DOMAIN position THEN FALSE
    ELSE position.current_price * 100 <= position.stop_loss

\* RiskManager._should_take_profit
should_take_profit(position) ==
    IF "current_price" \notin DOMAIN position THEN FALSE
    ELSE position.current_price * 100 >= position.take_profit

\* RiskManager._should_trailing_stop_loss: the level is
\* entry_price * (1 + trailing_stop_loss_percent / 100)
should_trailing_stop_loss(rm, position) ==
    IF "current_price" \notin DOMAIN position THEN FALSE
    ELSE position.current_price * 100 <= position.entry_price * (100 + rm.trailing_stop_loss_percent)

\* mutant: take-profit is tested before the trailing stop
update_position_profit_first(rm, contract_id, current_price, pnl, status) ==
    IF contract_id \notin DOMAIN rm.active_positions
      THEN [risk_manager |-> rm, returned |-> "None"]
    ELSE LET position == ("current_price" :> current_price @@ "pnl" :> pnl @@ "status" :> status)
                             @@ rm.active_positions[contract_id]
             updated == [rm EXCEPT !.active_positions[contract_id] = position]
         IN  [ risk_manager |-> updated,
               returned |-> IF should_stop_loss(position) THEN "stop_loss"
                            ELSE IF should_take_profit(position) THEN "take_profit"
                            ELSE IF should_trailing_stop_loss(updated, position) THEN "trailing_stop_loss"
                            ELSE "None" ]

\* RiskManager.update_position: the RiskManager it leaves and what it returns
update_position(rm, contract_id, current_price, pnl, status) ==
    IF contract_id \notin DOMAIN rm.active_positions
      THEN [risk_manager |-> rm, returned |-> "None"]
    ELSE LET position == ("current_price" :> current_price @@ "pnl" :> pnl @@ "status" :> status)
                             @@ rm.active_positions[contract_id]
             updated == [rm EXCEPT !.active_positions[contract_id] = position]
         IN  [ risk_manager |-> updated,
               returned |-> IF should_stop_loss(position) THEN "stop_loss"
                            ELSE IF should_trailing_stop_loss(updated, position) THEN "trailing_stop_loss"
                            ELSE IF should_take_profit(position) THEN "take_profit"
                            ELSE "None" ]

\* RiskManager.reset_daily_stats: the new dictionary has no 'highest_balance'
reset_daily_stats(rm) ==
    [rm EXCEPT !.daily_stats = [ trades |-> 0, wins |-> 0, losses |-> 0, total_pnl |-> 0,
                                 max_drawdown |-> 0, daily_start_balance |-> START_BALANCE ]]

\* close_position raises KeyError at `self.daily_stats['highest_balance']`
close_position_raises(rm, contract_id) ==
    /\ contract_id \in DOMAIN rm.active_positions
    /\ "highest_balance" \notin DOMAIN rm.daily_stats

\* RiskManager.close_position: the RiskManager it leaves, also when the
\* statement that reads 'highest_balance' raises (the statistics are
\* counted by then, the position is not deleted yet)
close_position(rm, contract_id, pnl) ==
    IF contract_id \notin DOMAIN rm.active_positions THEN rm
    ELSE LET counted == [rm EXCEPT !.daily_stats.trades = @ + 1,
                                   !.daily_stats.total_pnl = @ + pnl,
                                   !.daily_stats.wins = IF pnl > 0 THEN @ + 1 ELSE @,
                                   !.daily_stats.losses = IF pnl > 0 THEN @ ELSE @ + 1]
             current_balance == counted.daily_stats.daily_start_balance + counted.daily_stats.total_pnl
         IN  IF close_position_raises(rm, contract_id) THEN counted
             ELSE LET raised == [counted EXCEPT !.daily_stats.highest_balance = Max(@, current_balance)]
                      current_drawdown == calculate_drawdown(raised)
                  IN  [raised EXCEPT !.daily_stats.max_drawdown = Max(@, current_drawdown),
                                     !.active_positions =
                                         [i \in DOMAIN rm.active_positions \ {contract_id} |->
                                             rm.active_positions[i]]]

\* RiskManager.calculate_optimal_stake (the StakeSizer); confidence in
\* percent, volatility in hundredths, the stake in cents rounded down.
\* daily_stats['win_rate'] is read; no code stores that key.
risk_calculate_optimal_stake(rm, confidence, volatility) ==
    IF "win_rate" \notin DOMAIN rm.daily_stats
      THEN [raised |-> "KeyError", stake |-> 0]
    ELSE LET base_stake == DEFAULT_STAKE
             \* min(confidence * 2, 3.0) * (1 + win_rate / 100), in 1/10000
             confidence_multiplier == Min(confidence * 2, 300) * (100 + rm.daily_stats.win_rate)
             \* max(0.5, 1.0 / volatility), in 1/10000
             volatility_multiplier == Max(5000, 1000000 \div volatility)
             optimal_stake == (((base_stake * confidence_multiplier) \div 10000) * volatility_multiplier) \div 10000
         IN  [raised |-> "none", stake |-> Min(optimal_stake, rm.max_stake)]

(* ---------------------- upstream signal analyses ------------------------ *)
\* LossPreventionAI._should_allow_trading (loss_threshold 0.3, profit_threshold 0.7)
should_allow_trading(safety_score, loss_prob, profit_prob) ==
    IF loss_prob > 30 THEN FALSE
    ELSE IF profit_prob < 70 THEN FALSE
    ELSE IF safety_score < 60 THEN FALSE
    ELSE TRUE

\* LossPreventionAI._get_risk_level
get_risk_level(safety_score) ==
    IF safety_score >= 80 THEN "LOW"
    ELSE IF safety_score >= 60 THEN "MEDIUM"
    ELSE IF safety_score >= 40 THEN "HIGH"
    ELSE "CRITICAL"

\* LossPreventionAI._safe_fallback
safe_fallback ==
    [ safe_to_trade |-> TRUE, safety_score |-> 60, loss_probability |-> 40,
      profit_probability |-> 60, risk_level |-> "MEDIUM", fallback |-> TRUE ]

\* LossPreventionAI.analyze_market_safety.  ok is FALSE when fewer than 20
\* data points are held or the analysis raises; raw holds the model outputs.
analyze_market_safety(ok, raw) ==
    IF ~ok THEN safe_fallback
    ELSE [ safe_to_trade |-> should_allow_trading(raw.safety_score, raw.loss_probability,
                                                   raw.profit_probability),
           safety_score |-> raw.safety_score,
           loss_probability |-> raw.loss_probability,
           profit_probability |-> raw.profit_probability,
           risk_level |-> get_risk_level(raw.safety_score),
           fallback |-> FALSE ]

\* MarketSentimentAnalyzer.analyze_market_sentiment: direction from the
\* overall sentiment, window status from _find_optimal_trading_window
analyze_market_sentiment(overall_sentiment, window_status) ==
    [ overall_sentiment |-> overall_sentiment,
      market_direction |-> IF overall_sentiment > 10 THEN "BULLISH"
                           ELSE IF overall_sentiment < -10 THEN "BEARISH"
                           ELSE "NEUTRAL",
      window_status |-> window_status ]

\* model_predictions.get('ensemble', {}).get('confidence', 0.0)
ensemble_confidence_of(ensemble) == IF ensemble.present THEN ensemble.confidence ELSE 0

(* ----------------------- AutoTradingController ------------------------- *)
\* AutoTradingController.__init__: session_stats
SessionStatsInit ==
    [ trades_executed |-> 0, trades_prevented |-> 0, wins |-> 0, losses |-> 0,
      total_profit |-> 0, max_consecutive_losses |-> 0,
      current_consecutive_losses |-> 0 ]

\* mutant: the safety multiplier falls from 2.0x to 0.5x as the score rises
calculate_optimal_stake_inverse_safety(max_stake, safety_analysis, sentiment_analysis, prediction, trade_request) ==
    LET base_stake == <<trade_request.amount, 1>>
        s1 == FracMul(base_stake, 100 + 3 * (100 - safety_analysis.safety_score), 200)
        s2 == FracMul(s1, 100 + 3 * prediction.confidence, 200)
        s3 == FracMul(s2, 200 + Abs(sentiment_analysis.overall_sentiment), 250)
        optimal_stake == FracMul(s3, 75 + safety_analysis.profit_probability, 125)
        capped == IF optimal_stake[1] <= max_stake * optimal_stake[2]
                    THEN optimal_stake ELSE <<max_stake, 1>>
        floored == IF capped[1] >= MIN_STAKE * capped[2] THEN capped ELSE <<MIN_STAKE, 1>>
    IN  RoundHalfEven(floored)

\* AutoTradingController._calculate_optimal_stake, in cents
calculate_optimal_stake(max_stake, safety_analysis, sentiment_analysis, prediction, trade_request) ==
    LET base_stake == <<trade_request.amount, 1>>
        \* 0.5 + (safety_score / 100) * 1.5
        s1 == FracMul(base_stake, 100 + 3 * safety_analysis.safety_score, 200)
        \* 0.5 + confidence * 1.5
        s2 == FracMul(s1, 100 + 3 * prediction.confidence, 200)
        \* 0.8 + abs(overall_sentiment) * 0.4
        s3 == FracMul(s2, 200 + Abs(sentiment_analysis.overall_sentiment), 250)
        \* 0.6 + profit_probability * 0.8
        optimal_stake == FracMul(s3, 75 + safety_analysis.profit_probability, 125)
        capped == IF optimal_stake[1] <= max_stake * optimal_stake[2]
                    THEN optimal_stake ELSE <<max_stake, 1>>
        floored == IF capped[1] >= MIN_STAKE * capped[2] THEN capped ELSE <<MIN_STAKE, 1>>
    IN  RoundHalfEven(floored)

\* AutoTradingController._calculate_combined_confidence, in thousandths
calculate_combined_confidence(safety_analysis, sentiment_analysis, prediction, ensemble_confidence) ==
    Min(1000, safety_analysis.safety_score * 3
              + Abs(sentiment_analysis.overall_sentiment) * 2
              + prediction.confidence * 3
              + ensemble_confidence * 2)

RECURSIVE best_signal(_, _)
\* the loop over signal_contracts in _optimize_contract_selection
best_signal(signals, best) ==
    IF signals = << >> THEN best
    ELSE LET signal == Head(signals)
         IN  best_signal(Tail(signals),
                         IF signal.strength > best.confidence
                           THEN [contract_type |-> signal.type, confidence |-> signal.strength]
                           ELSE best)

\* mutant: the signal contracts are not looked at
optimize_contract_selection_ensemble_only(ensemble, signal_contracts, trade_request) ==
    LET current_contract == trade_request.contract_type
        recommended_contract == IF ensemble.present THEN ensemble.contract_type ELSE current_contract
        first == [contract_type |-> current_contract, confidence |-> 50]
        best == IF ensemble_confidence_of(ensemble) > first.confidence
                  THEN [contract_type |-> recommended_contract,
                        confidence |-> ensemble_confidence_of(ensemble)]
                  ELSE first
    IN  [ contract_type |-> best.contract_type,
          confidence |-> best.confidence,
          duration |-> IF ensemble.present THEN ensemble.duration ELSE 5 ]

\* AutoTradingController._optimize_contract_selection
optimize_contract_selection(ensemble, signal_contracts, trade_request) ==
    LET current_contract == trade_request.contract_type
        recommended_contract == IF ensemble.present THEN ensemble.contract_type ELSE current_contract
        first == [contract_type |-> current_contract, confidence |-> 50]
        afterEnsemble == IF ensemble_confidence_of(ensemble) > first.confidence
                           THEN [contract_type |-> recommended_contract,
                                 confidence |-> ensemble_confidence_of(ensemble)]
                           ELSE first
        best == best_signal(signal_contracts, afterEnsemble)
    IN  [ contract_type |-> best.contract_type,
          confidence |-> best.confidence,
          duration |-> IF ensemble.present THEN ensemble.duration ELSE 5 ]

NoContract == [contract_type |-> "none", confidence |-> 0, duration |-> 0]

\* mutant: the rejection keeps the gate's default risk level
safe_rejection_default_risk(reason) ==
    [ execute_trade |-> FALSE, reason |-> reason, confidence |-> 0,
      recommended_stake |-> 0, risk_level |-> "HIGH",
      optimized_contract |-> NoContract ]

\* AutoTradingController._safe_rejection
safe_rejection(reason) ==
    [ execute_trade |-> FALSE, reason |-> reason, confidence |-> 0,
      recommended_stake |-> 0, risk_level |-> "CRITICAL",
      optimized_contract |-> NoContract ]

(* The eleven checks as the gate's contract numbers them, and the reason    *)
(* each one rejects with.                                                  *)
GateReason ==
    <<"Trading manually disabled", "Risk management block", "Loss prevention block",
      "Safety score too low", "Loss probability too high", "Profit probability too low",
      "Prediction confidence too low", "Market sentiment too neutral",
      "Too many consecutive losses", "Model ensemble confidence too low",
      "Not in optimal trading window">>

CheckFails(k, enabled, th, stats, safety_analysis, sentiment_analysis, ensemble, prediction, risk_check) ==
    CASE k = 1 -> ~enabled
      [] k = 2 -> ~risk_check.allowed
      [] k = 3 -> ~safety_analysis.safe_to_trade
      [] k = 4 -> safety_analysis.safety_score < th.min_safety_score
      [] k = 5 -> safety_analysis.loss_probability > th.max_loss_probability
      [] k = 6 -> safety_analysis.profit_probability < th.min_profit_probability
      [] k = 7 -> prediction.confidence < th.min_confidence
      [] k = 8 -> /\ sentiment_analysis.market_direction = "NEUTRAL"
                  /\ Abs(sentiment_analysis.overall_sentiment) * 10 < 100
      [] k = 9 -> stats.current_consecutive_losses >= 3
      [] k = 10 -> ~ensemble.present \/ ensemble.confidence * 10 < 700
      [] k = 11 -> sentiment_analysis.window_status = "suboptimal"

\* a gate that runs the checks listed in order, and only those
gate_in_order(order, enabled, th, stats, max_stake, safety_analysis, sentiment_analysis, ensemble, signal_contracts, prediction, risk_check, trade_request) ==
    LET failing == { i \in 1..Len(order) :
                       CheckFails(order[i], enabled, th, stats, safety_analysis,
                                  sentiment_analysis, ensemble, prediction, risk_check) }
        first == CHOOSE i \in failing : \A j \in failing : i <= j
    IN  IF failing # {}
          THEN [ decision |->
                   [ execute_trade |-> FALSE, reason |-> GateReason[order[first]],
                     confidence |-> 0, recommended_stake |-> 0,
                     risk_level |-> safety_analysis.risk_level,
                     optimized_contract |-> NoContract ],
                 session_stats |-> IF order[first] = 3
                                     THEN [stats EXCEPT !.trades_prevented = @ + 1]
                                     ELSE stats ]
          ELSE [ decision |->
                   [ execute_trade |-> TRUE,
                     reason |-> "All safety and profitability checks passed",
                     confidence |-> calculate_combined_confidence(safety_analysis,
                                        sentiment_analysis, prediction,
                                        ensemble_confidence_of(ensemble)),
                     recommended_stake |-> calculate_optimal_stake(max_stake, safety_analysis,
                                               sentiment_analysis, prediction, trade_request),
                     risk_level |-> safety_analysis.risk_level,
                     optimized_contract |-> optimize_contract_selection(ensemble,
                                                signal_contracts, trade_request) ],
                 session_stats |-> stats ]

\* mutant: the safe_to_trade check is missing
make_trading_decision_unsafe_skipped(enabled, th, stats, max_stake, safety_analysis, sentiment_analysis, ensemble, signal_contracts, prediction, risk_check, trade_request) ==
    gate_in_order(<<1, 2, 4, 5, 6, 7, 8, 9, 10, 11>>, enabled, th, stats, max_stake,
                  safety_analysis, sentiment_analysis, ensemble, signal_contracts, prediction,
                  risk_check, trade_request)

\* mutant: the consecutive-loss check comes after the ensemble check
make_trading_decision_losses_late(enabled, th, stats, max_stake, safety_analysis, sentiment_analysis, ensemble, signal_contracts, prediction, risk_check, trade_request) ==
    gate_in_order(<<1, 2, 3, 4, 5, 6, 7, 8, 10, 9, 11>>, enabled, th, stats, max_stake,
                  safety_analysis, sentiment_analysis, ensemble, signal_contracts, prediction,
                  risk_check, trade_request)

\* AutoTradingController._make_trading_decision.  Returns the Decision and
\* the session_stats as the method leaves them.
make_trading_decision(enabled, th, stats, max_stake, safety_analysis, sentiment_analysis, ensemble, signal_contracts, prediction, risk_check, trade_request) ==
    LET reject(reason) ==
            [ execute_trade |-> FALSE, reason |-> reason, confidence |-> 0,
              recommended_stake |-> 0, risk_level |-> safety_analysis.risk_level,
              optimized_contract |-> NoContract ]
        ensemble_confidence == ensemble_confidence_of(ensemble)
    IN  IF ~enabled
          THEN [decision |-> reject("Trading manually disabled"), session_stats |-> stats]
        ELSE IF ~risk_check.allowed
          THEN [decision |-> reject("Risk management block"), session_stats |-> stats]
        ELSE IF ~safety_analysis.safe_to_trade
          THEN [decision |-> reject("Loss prevention block"),
                session_stats |-> [stats EXCEPT !.trades_prevented = @ + 1]]
        ELSE IF safety_analysis.safety_score < th.min_safety_score
          THEN [decision |-> reject("Safety score too low"), session_stats |-> stats]
        ELSE IF safety_analysis.loss_probability > th.max_loss_probability
          THEN [decision |-> reject("Loss probability too high"), session_stats |-> stats]
        ELSE IF safety_analysis.profit_probability < th.min_profit_probability
          THEN [decision |-> reject("Profit probability too low"), session_stats |-> stats]
        ELSE IF prediction.confidence < th.min_confidence
          THEN [decision |-> reject("Prediction confidence too low"), session_stats |-> stats]
        ELSE IF sentiment_analysis.market_direction = "NEUTRAL"
                /\ Abs(sentiment_analysis.overall_sentiment) < NEUTRAL_SENTIMENT_BAND
          THEN [decision |-> reject("Market sentiment too neutral"), session_stats |-> stats]
        ELSE IF stats.current_consecutive_losses >= CONSECUTIVE_LOSS_LIMIT
          THEN [decision |-> reject("Too many consecutive losses"), session_stats |-> stats]
        ELSE IF ensemble_confidence < MIN_ENSEMBLE_CONFIDENCE
          THEN [decision |-> reject("Model ensemble confidence too low"), session_stats |-> stats]
        ELSE IF sentiment_analysis.window_status = "suboptimal"
          THEN [decision |-> reject("Not in optimal trading window"), session_stats |-> stats]
        ELSE [ decision |->
                 [ execute_trade |-> TRUE,
                   reason |-> "All safety and profitability checks passed",
                   confidence |-> calculate_combined_confidence(safety_analysis,
                                      sentiment_analysis, prediction, ensemble_confidence),
                   recommended_stake |-> calculate_optimal_stake(max_stake, safety_analysis,
                                             sentiment_analysis, prediction, trade_request),
                   risk_level |-> safety_analysis.risk_level,
                   optimized_contract |-> optimize_contract_selection(ensemble,
                                              signal_contracts, trade_request) ],
               session_stats |-> stats ]

\* mutant: the post-evaluation update counts every rejection twice
update_session_stats_twice(stats, d) ==
    IF d.execute_trade THEN [stats EXCEPT !.trades_executed = @ + 1]
    ELSE [stats EXCEPT !.trades_prevented = @ + 2]

\* AutoTradingController._update_session_stats
update_session_stats(stats, d) ==
    IF d.execute_trade THEN [stats EXCEPT !.trades_executed = @ + 1]
    ELSE [stats EXCEPT !.trades_prevented = @ + 1]

\* AutoTradingController.should_execute_trade.  c holds the arguments and what
\* the collaborators return during the call; c.raises says that one of the
\* steps inside the try block raises.
should_execute_trade(enabled, th, stats, rm, t, c) ==
    IF c.raises
      THEN [decision |-> safe_rejection("Analysis failed - safety first"),
            session_stats |-> stats]
    ELSE LET safety_analysis == analyze_market_safety(c.analysis_ok, c.raw)
             sentiment_analysis == analyze_market_sentiment(c.overall_sentiment, c.window_status)
             risk_check == can_place_trade(rm, c.trade_request.amount, t)
             made == make_trading_decision(enabled, th, stats, rm.max_stake, safety_analysis,
                         sentiment_analysis, c.ensemble, c.signal_contracts, c.prediction,
                         risk_check, c.trade_request)
         IN  [decision |-> made.decision,
              session_stats |-> update_session_stats(made.session_stats, made.decision)]

\* AutoTradingController.get_trading_status: the fields computed from the
\* controller's own state; win_rate is the exact fraction wins * 100 / total
get_trading_status(enabled, auto_pause, th, stats) ==
    LET total_trades == stats.wins + stats.losses
        win_rate == IF total_trades > 0 THEN Frac(stats.wins * 100, total_trades) ELSE <<0, 1>>
    IN  [ trading_enabled |-> enabled,
          auto_pause_enabled |-> auto_pause,
          session_stats |-> [ stats |-> stats, win_rate |-> win_rate, total_trades |-> total_trades ],
          safety_thresholds |-> th ]

\* AutoTradingController.pause_trading: what it sets and the reason it logs
pause_trading(reason) == [is_trading_enabled |-> FALSE, last_pause_reason |-> reason]

\* mutant: a 'failed' attempt is counted like a loss
record_trade_outcome_failed_as_loss(stats, enabled, auto_pause, logged, outcome, pnl) ==
    LET recorded_stats ==
            IF outcome = "win"
              THEN [stats EXCEPT !.wins = @ + 1, !.current_consecutive_losses = 0,
                                 !.total_profit = @ + pnl]
            ELSE IF outcome \in {"loss", "failed"}
              THEN [stats EXCEPT !.losses = @ + 1,
                                 !.current_consecutive_losses = @ + 1,
                                 !.max_consecutive_losses =
                                     Max(@, stats.current_consecutive_losses + 1),
                                 !.total_profit = @ + pnl]
            ELSE stats
        paused == pause_trading("Auto-paused after 5 consecutive losses")
    IN  IF auto_pause /\ recorded_stats.current_consecutive_losses >= AUTO_PAUSE_LOSSES
          THEN [ session_stats |-> recorded_stats,
                 is_trading_enabled |-> paused.is_trading_enabled,
                 last_pause_reason |-> paused.last_pause_reason ]
          ELSE [ session_stats |-> recorded_stats, is_trading_enabled |-> enabled,
                 last_pause_reason |-> logged ]

\* mutant: a loss writes the streak from a stale read of 0
record_trade_outcome_stale_streak(stats, enabled, auto_pause, logged, outcome, pnl) ==
    LET recorded_stats ==
            IF outcome = "win"
              THEN [stats EXCEPT !.wins = @ + 1, !.current_consecutive_losses = 0,
                                 !.total_profit = @ + pnl]
            ELSE IF outcome = "loss"
              THEN [stats EXCEPT !.losses = @ + 1,
                                 !.current_consecutive_losses = 1,
                                 !.max_consecutive_losses = Max(@, 1),
                                 !.total_profit = @ + pnl]
            ELSE stats
        paused == pause_trading("Auto-paused after 5 consecutive losses")
    IN  IF auto_pause /\ recorded_stats.current_consecutive_losses >= AUTO_PAUSE_LOSSES
          THEN [ session_stats |-> recorded_stats,
                 is_trading_enabled |-> paused.is_trading_enabled,
                 last_pause_reason |-> paused.last_pause_reason ]
          ELSE [ session_stats |-> recorded_stats, is_trading_enabled |-> enabled,
                 last_pause_reason |-> logged ]

\* mutant: the auto-pause uses the gate's limit of three losses
record_trade_outcome_pause_at_3(stats, enabled, auto_pause, logged, outcome, pnl) ==
    LET recorded ==
            IF outcome = "win"
              THEN [stats EXCEPT !.wins = @ + 1, !.current_consecutive_losses = 0,
                                 !.total_profit = @ + pnl]
            ELSE IF outcome = "loss"
              THEN [stats EXCEPT !.losses = @ + 1,
                                 !.current_consecutive_losses = @ + 1,
                                 !.max_consecutive_losses =
                                     Max(@, stats.current_consecutive_losses + 1),
                                 !.total_profit = @ + pnl]
            ELSE stats
        paused == pause_trading("Auto-paused after 5 consecutive losses")
    IN  IF auto_pause /\ recorded.current_consecutive_losses >= 3
          THEN [ session_stats |-> recorded,
                 is_trading_enabled |-> paused.is_trading_enabled,
                 last_pause_reason |-> paused.last_pause_reason ]
          ELSE [ session_stats |-> recorded, is_trading_enabled |-> enabled,
                 last_pause_reason |-> logged ]

\* AutoTradingController.record_trade_outcome.  Returns the fields it leaves:
\* session_stats, is_trading_enabled and the pause reason logged last.
record_trade_outcome(stats, enabled, auto_pause, logged, outcome, pnl) ==
    LET recorded ==
            IF outcome = "win"
              THEN [stats EXCEPT !.wins = @ + 1, !.current_consecutive_losses = 0,
                                 !.total_profit = @ + pnl]
            ELSE IF outcome = "loss"
              THEN [stats EXCEPT !.losses = @ + 1,
                                 !.current_consecutive_losses = @ + 1,
                                 !.max_consecutive_losses =
                                     Max(@, stats.current_consecutive_losses + 1),
                                 !.total_profit = @ + pnl]
            ELSE stats
        paused == pause_trading("Auto-paused after 5 consecutive losses")
    IN  IF auto_pause /\ recorded.current_consecutive_losses >= AUTO_PAUSE_LOSSES
          THEN [ session_stats |-> recorded,
                 is_trading_enabled |-> paused.is_trading_enabled,
                 last_pause_reason |-> paused.last_pause_reason ]
          ELSE [ session_stats |-> recorded, is_trading_enabled |-> enabled,
                 last_pause_reason |-> logged ]

(* ------------------------------- state --------------------------------- *)
VARIABLES
    is_trading_enabled,   \* AutoTradingController.is_trading_enabled
    auto_pause_enabled,   \* AutoTradingController.auto_pause_enabled
    safety_thresholds,    \* min_safety_score, min_profit_probability, max_loss_probability, min_confidence
    session_stats,        \* AutoTradingController.session_stats
    risk_manager,         \* AutoTradingController.risk_manager
    last_pause_reason,    \* the reason pause_trading() logged last
    now,                  \* time.time()
    call,                 \* arguments and collaborator results of the last should_execute_trade
    decision,             \* what the last should_execute_trade returned
    is_running,           \* AutoTrader.is_running
    tasks,                \* the start_auto_trading() coroutines
    trader_risk_manager,  \* AutoTrader.risk_manager
    has_demo_balance,     \* hasattr(AutoTrader, '_demo_balance')
    after_stop,           \* per coroutine: what it did after a stop() reached its session
    risk_verdict,         \* the last can_place_trade() asked of risk_manager, with its arguments
    last_opened,          \* time.time() of the most recent add_position(); -1 before the first
    recorded,             \* how many 'win' and 'loss' outcomes record_trade_outcome() was given
    position_call,        \* the last call of SpecPos on risk_manager: its number, arguments and result
    status_seen           \* the last get_trading_status(): its number, its result, the controller it read

ctlVars == <<is_trading_enabled, auto_pause_enabled, safety_thresholds, session_stats,
             risk_manager, last_pause_reason>>
callVars == <<call, decision>>
traderVars == <<is_running, tasks, trader_risk_manager, has_demo_balance, after_stop>>
ledgerVars == <<risk_verdict, last_opened, position_call, status_seen>>

\* no can_place_trade() asked yet; no outcome recorded yet
NoVerdict == [asked |-> FALSE, stake |-> 0, time |-> 0, last_opened |-> -1, allowed |-> FALSE, reason |-> "none"]
NoneRecorded == [win |-> 0, loss |-> 0]
\* get_trading_status() not called yet
NoStatusSeen == [n |-> 0, status |-> << >>, of |-> << >>]
\* no call made on the positions yet
NoPositionCall == [n |-> 0, op |-> "none", contract_id |-> 0, value |-> 0, returned |-> "None"]
\* one more outcome handed to record_trade_outcome()
NoteOutcome(rec, outcome) == IF outcome \in {"win", "loss"} THEN [rec EXCEPT ![outcome] = @ + 1] ELSE rec
vars == <<is_trading_enabled, auto_pause_enabled, safety_thresholds, session_stats,
          risk_manager, last_pause_reason, now, call, decision, is_running, tasks,
          trader_risk_manager, has_demo_balance, after_stop, risk_verdict, last_opened,
          recorded, position_call, status_seen>>

\* AutoTradingController.__init__: safety thresholds
DefaultThresholds ==
    [ min_safety_score |-> DEFAULT_MIN_SAFETY_SCORE,
      min_profit_probability |-> DEFAULT_MIN_PROFIT_PROBABILITY,
      max_loss_probability |-> DEFAULT_MAX_LOSS_PROBABILITY,
      min_confidence |-> DEFAULT_MIN_CONFIDENCE ]

\* a threshold set an operator installs with update_safety_thresholds
StrictThresholds ==
    [ min_safety_score |-> 70, min_profit_probability |-> 75,
      max_loss_probability |-> 25, min_confidence |-> 80 ]

NoDecision ==
    [ execute_trade |-> FALSE, reason |-> "none", confidence |-> 0,
      recommended_stake |-> 0, risk_level |-> "none", optimized_contract |-> NoContract ]

(* ---------------------- inputs of an evaluation ------------------------- *)
RawAnalyses ==
    [ safety_score : {50, 60, 75}, loss_probability : {20, 30, 40},
      profit_probability : {60, 70, 80} ]
Ensembles ==
    { [present |-> FALSE, confidence |-> 0, contract_type |-> "none", duration |-> 0] }
    \cup [ present : {TRUE}, confidence : {60, 85}, contract_type : {"DIGITEVEN"},
           duration : {5} ]
SignalContracts ==
    { << >>, <<[type |-> "CALL", strength |-> 90], [type |-> "DIGITODD", strength |-> 40]>> }
TradeRequests ==
    [ contract_type : {"DIGITODD"}, amount : {100, 600}, duration : {5} ]
Calls ==
    [ analysis_ok : BOOLEAN, raw : RawAnalyses, overall_sentiment : {-40, 0, 10},
      window_status : {"optimal", "suboptimal", "unknown"}, ensemble : Ensembles,
      signal_contracts : SignalContracts, prediction : [confidence : {50, 90}],
      trade_request : TradeRequests, raises : BOOLEAN ]
\* a failed analysis returns the same fallback whatever the models would have said
GateCalls ==
    { c \in Calls : ~c.analysis_ok => c.raw = [safety_score |-> 50, loss_probability |-> 20,
                                                profit_probability |-> 60] }
NoCall == CHOOSE c \in Calls : TRUE

\* session_stats after k losses in a row have been recorded
StatsAfterLosses(k) ==
    [ SessionStatsInit EXCEPT !.losses = k, !.current_consecutive_losses = k,
                              !.max_consecutive_losses = k, !.total_profit = -100 * k ]

(* --------------- SpecGate: one evaluation of the gate ------------------- *)
InitGate ==
    /\ is_trading_enabled \in BOOLEAN
    /\ auto_pause_enabled = TRUE
    /\ safety_thresholds \in {DefaultThresholds, StrictThresholds}
    /\ \E k \in 0..MaxStreak : session_stats = StatsAfterLosses(k)
    /\ risk_manager = RiskManagerInit
    /\ last_pause_reason = "none"
    /\ now = 0
    /\ call \in GateCalls
    /\ decision = NoDecision
    /\ is_running = FALSE
    /\ tasks = << >>
    /\ trader_risk_manager = RiskManagerInit
    /\ has_demo_balance = FALSE
    /\ after_stop = << >>
    /\ risk_verdict = NoVerdict
    /\ last_opened = -1
    /\ recorded = NoneRecorded
    /\ position_call = NoPositionCall
    /\ status_seen = NoStatusSeen

\* should_execute_trade applied to the arguments held in call
Evaluate ==
    /\ decision = NoDecision
    /\ LET r == should_execute_trade(is_trading_enabled, safety_thresholds, session_stats,
                                     risk_manager, now, call)
       IN  /\ decision' = r.decision
           /\ session_stats' = r.session_stats
    /\ UNCHANGED <<is_trading_enabled, auto_pause_enabled, safety_thresholds, risk_manager,
                   last_pause_reason, now, ledgerVars, recorded, call, traderVars>>

NextGate == Evaluate

SpecGate == InitGate /\ [][NextGate]_vars

(* ------------- SpecCtl: the controller driven through its API ----------- *)
GoodCall ==
    [ analysis_ok |-> TRUE,
      raw |-> [safety_score |-> 75, loss_probability |-> 20, profit_probability |-> 80],
      overall_sentiment |-> -40, window_status |-> "optimal",
      ensemble |-> [present |-> TRUE, confidence |-> 85, contract_type |-> "DIGITEVEN",
                    duration |-> 5],
      signal_contracts |-> << >>, prediction |-> [confidence |-> 90],
      trade_request |-> [contract_type |-> "DIGITODD", amount |-> 100, duration |-> 5],
      raises |-> FALSE ]

\* what the collaborators may hand to one evaluation of a running controller
CtlCalls ==
    { GoodCall,
      [GoodCall EXCEPT !.raw.loss_probability = 40],
      [GoodCall EXCEPT !.analysis_ok = FALSE],
      [GoodCall EXCEPT !.ensemble.confidence = 60],
      [GoodCall EXCEPT !.raises = TRUE] }

\* the outcomes callers report, with the pnl of a stake of 1.0
Outcomes ==
    { [outcome |-> "win", pnl |-> 80], [outcome |-> "loss", pnl |-> -100],
      [outcome |-> "pending", pnl |-> 0], [outcome |-> "failed", pnl |-> 0] }

InitCtl ==
    /\ is_trading_enabled = TRUE
    /\ auto_pause_enabled = TRUE
    /\ safety_thresholds = DefaultThresholds
    /\ session_stats = SessionStatsInit
    /\ risk_manager = RiskManagerInit
    /\ last_pause_reason = "none"
    /\ now = 0
    /\ call = NoCall
    /\ decision = NoDecision
    /\ is_running = FALSE
    /\ tasks = << >>
    /\ trader_risk_manager = RiskManagerInit
    /\ has_demo_balance = FALSE
    /\ after_stop = << >>
    /\ risk_verdict = NoVerdict
    /\ last_opened = -1
    /\ recorded = NoneRecorded
    /\ position_call = NoPositionCall
    /\ status_seen = NoStatusSeen

\* record_trade_outcome(outcome, pnl) called on the controller
RecordOutcome ==
    \E o \in Outcomes :
        /\ session_stats.wins + session_stats.losses < MaxOutcomes
        /\ LET r == record_trade_outcome(session_stats, is_trading_enabled,
                                         auto_pause_enabled, last_pause_reason,
                                         o.outcome, o.pnl)
           IN  /\ session_stats' = r.session_stats
               /\ is_trading_enabled' = r.is_trading_enabled
               /\ last_pause_reason' = r.last_pause_reason
        /\ recorded' = NoteOutcome(recorded, o.outcome)
        /\ UNCHANGED <<auto_pause_enabled, safety_thresholds, risk_manager, now, ledgerVars, call,
                       decision, traderVars>>

\* pause_trading() called by an operator
PauseTrading ==
    /\ is_trading_enabled' = pause_trading("Manual pause").is_trading_enabled
    /\ last_pause_reason' = pause_trading("Manual pause").last_pause_reason
    /\ UNCHANGED <<auto_pause_enabled, safety_thresholds, session_stats, risk_manager, now, ledgerVars, recorded,
                   call, decision, traderVars>>

\* resume_trading() called by an operator
ResumeTrading ==
    /\ is_trading_enabled' = TRUE
    /\ UNCHANGED <<auto_pause_enabled, safety_thresholds, session_stats, risk_manager,
                   last_pause_reason, now, ledgerVars, recorded, call, decision, traderVars>>

\* update_safety_thresholds() called with a full set of thresholds
UpdateThresholds ==
    \E th \in {DefaultThresholds, StrictThresholds} :
        /\ safety_thresholds' = th
        /\ UNCHANGED <<is_trading_enabled, auto_pause_enabled, session_stats, risk_manager,
                       last_pause_reason, now, ledgerVars, recorded, call, decision, traderVars>>

\* should_execute_trade() called on the controller
CtlEvaluate ==
    \E c \in CtlCalls :
        /\ session_stats.trades_executed + session_stats.trades_prevented < MaxEvals
        /\ LET r == should_execute_trade(is_trading_enabled, safety_thresholds,
                                         session_stats, risk_manager, now, c)
           IN  /\ decision' = r.decision
               /\ session_stats' = r.session_stats
        /\ call' = c
        /\ UNCHANGED <<is_trading_enabled, auto_pause_enabled, safety_thresholds,
                       risk_manager, last_pause_reason, now, ledgerVars, recorded, traderVars>>

NextCtl ==
    \/ RecordOutcome
    \/ PauseTrading
    \/ ResumeTrading
    \/ UpdateThresholds
    \/ CtlEvaluate

SpecCtl == InitCtl /\ [][NextCtl]_vars

(* ---- SpecStatus: the controller's API with get_trading_status() ------- *)
\* mutant: reading the status clears the loss streak
GetStatusClearing ==
    /\ status_seen.n < MaxStatus
    /\ status_seen' = [ n |-> status_seen.n + 1,
                        status |-> get_trading_status(is_trading_enabled, auto_pause_enabled, safety_thresholds, session_stats),
                        of |-> <<is_trading_enabled, auto_pause_enabled, safety_thresholds, session_stats>> ]
    /\ session_stats' = [session_stats EXCEPT !.current_consecutive_losses = 0]
    /\ UNCHANGED <<is_trading_enabled, auto_pause_enabled, safety_thresholds, risk_manager, last_pause_reason>>
    /\ UNCHANGED <<now, risk_verdict, last_opened, position_call, recorded, callVars, traderVars>>

\* get_trading_status() called on the controller
GetStatus ==
    /\ status_seen.n < MaxStatus
    /\ status_seen' = [ n |-> status_seen.n + 1,
                        status |-> get_trading_status(is_trading_enabled, auto_pause_enabled, safety_thresholds, session_stats),
                        of |-> <<is_trading_enabled, auto_pause_enabled, safety_thresholds, session_stats>> ]
    /\ UNCHANGED <<is_trading_enabled, auto_pause_enabled, safety_thresholds, session_stats, risk_manager, last_pause_reason>>
    /\ UNCHANGED <<now, risk_verdict, last_opened, position_call, recorded, callVars, traderVars>>

\* SpecStatus follows the controller for MaxStatus recorded wins and losses
NextStatus ==
    \/ (recorded.win + recorded.loss < MaxStatus /\ RecordOutcome)
    \/ PauseTrading
    \/ ResumeTrading
    \/ UpdateThresholds
    \/ CtlEvaluate
    \/ GetStatus

SpecStatus == InitCtl /\ [][NextStatus]_vars

(* ---- SpecContract: one evaluation, over the contract candidates ------- *)
\* what the ensemble of MultiModelPredictor may return
ContractEnsembles ==
    { [present |-> FALSE, confidence |-> 0, contract_type |-> "none", duration |-> 0] }
    \cup [ present : {TRUE}, confidence : {50, 70, 85}, contract_type : {"DIGITEVEN", "CALL"},
           duration : {5, 7} ]
\* what get_trading_signals() may return in 'contracts'
ContractSignals ==
    { << >>,
      <<[type |-> "CALL", strength |-> 90], [type |-> "DIGITODD", strength |-> 40]>>,
      <<[type |-> "PUT", strength |-> 85]>>,
      <<[type |-> "PUT", strength |-> 75], [type |-> "DIGITEVEN", strength |-> 95]>> }
ContractCalls ==
    { [GoodCall EXCEPT !.ensemble = e, !.signal_contracts = sc,
                       !.trade_request.contract_type = ct, !.trade_request.duration = d] :
        e \in ContractEnsembles, sc \in ContractSignals, ct \in {"DIGITODD", "DIGITEVEN"}, d \in {5, 10} }

InitContract ==
    /\ is_trading_enabled = TRUE
    /\ auto_pause_enabled = TRUE
    /\ safety_thresholds = DefaultThresholds
    /\ session_stats = SessionStatsInit
    /\ risk_manager = RiskManagerInit
    /\ last_pause_reason = "none"
    /\ now = 0
    /\ call \in ContractCalls
    /\ decision = NoDecision
    /\ is_running = FALSE
    /\ tasks = << >>
    /\ trader_risk_manager = RiskManagerInit
    /\ has_demo_balance = FALSE
    /\ after_stop = << >>
    /\ risk_verdict = NoVerdict
    /\ last_opened = -1
    /\ recorded = NoneRecorded
    /\ position_call = NoPositionCall
    /\ status_seen = NoStatusSeen

SpecContract == InitContract /\ [][NextGate]_vars

(* ------- SpecStake: one evaluation, over stakes and stake limits ------- *)
\* MAX_STAKE comes from the environment: 0.30, 0.50, 1.20 and 5.00
MaxStakes == {30, 50, 120, MAX_STAKE}
\* requested stakes: 0, 0.10, 1.00 and 4.00
RequestedStakes == {0, 10, 100, 400}
\* calls whose signals are good enough for the gate, with the values the
\* stake is computed from varied
StakeCalls ==
    { [GoodCall EXCEPT !.raw = [safety_score |-> s, loss_probability |-> 20, profit_probability |-> p],
                       !.prediction = [confidence |-> c],
                       !.overall_sentiment = m,
                       !.trade_request.amount = a] :
        s \in {60, 75, 90}, p \in {70, 80, 100}, c \in {60, 90, 100}, m \in {-40, 100}, a \in RequestedStakes }

InitStake ==
    /\ is_trading_enabled = TRUE
    /\ auto_pause_enabled = TRUE
    /\ safety_thresholds = DefaultThresholds
    /\ session_stats = SessionStatsInit
    /\ \E m \in MaxStakes : risk_manager = [RiskManagerInit EXCEPT !.max_stake = m]
    /\ last_pause_reason = "none"
    /\ now = 0
    /\ call \in StakeCalls
    /\ decision = NoDecision
    /\ is_running = FALSE
    /\ tasks = << >>
    /\ trader_risk_manager = RiskManagerInit
    /\ has_demo_balance = FALSE
    /\ after_stop = << >>
    /\ risk_verdict = NoVerdict
    /\ last_opened = -1
    /\ recorded = NoneRecorded
    /\ position_call = NoPositionCall
    /\ status_seen = NoStatusSeen

SpecStake == InitStake /\ [][NextGate]_vars

(* ----------- SpecRisk: a RiskManager driven through its API ------------ *)
\* time.time() when the RiskManager is built, and the clock's step
StartClock == 100
ClockStep == 10
PositionIds == 1..MAX_CONCURRENT_TRADES
\* pnl of a close: a gain of 4000.00, a loss of 3000.00, a loss of 15000.00
Pnls == {400000, -300000, -1500000}
\* stakes asked of can_place_trade: 1.00 and 6.00
AskedStakes == {100, 600}

\* TRAILING_STOP_LOSS_PERCENT comes from the environment
InitRisk ==
    /\ is_trading_enabled = TRUE
    /\ auto_pause_enabled = TRUE
    /\ safety_thresholds = DefaultThresholds
    /\ session_stats = SessionStatsInit
    /\ \E trailing \in {0, TRAILING_STOP_LOSS_PERCENT} : risk_manager = [RiskManagerInit EXCEPT !.trailing_stop_loss_percent = trailing]
    /\ last_pause_reason = "none"
    /\ now = StartClock
    /\ call = NoCall
    /\ decision = NoDecision
    /\ is_running = FALSE
    /\ tasks = << >>
    /\ trader_risk_manager = RiskManagerInit
    /\ has_demo_balance = FALSE
    /\ after_stop = << >>
    /\ risk_verdict = NoVerdict
    /\ last_opened = -1
    /\ recorded = NoneRecorded
    /\ position_call = NoPositionCall
    /\ status_seen = NoStatusSeen

\* add_position() called for a submitted contract
AddPosition ==
    \E id \in PositionIds :
        /\ ~risk_verdict.asked
        /\ risk_manager' = add_position(risk_manager, id, 100, 10000, now)
        /\ last_opened' = now
        /\ UNCHANGED <<is_trading_enabled, auto_pause_enabled, safety_thresholds, session_stats, last_pause_reason, now, risk_verdict, position_call, status_seen, recorded, callVars, traderVars>>

\* close_position() called with the contract's pnl
ClosePosition ==
    \E id \in PositionIds, pnl \in Pnls :
        /\ ~risk_verdict.asked
        /\ risk_manager.daily_stats.trades < MaxCloses
        /\ risk_manager' = close_position(risk_manager, id, pnl)
        /\ UNCHANGED <<is_trading_enabled, auto_pause_enabled, safety_thresholds, session_stats, last_pause_reason, now, ledgerVars, recorded, callVars, traderVars>>

\* time passes
Tick ==
    \E steps \in {1, 3} :
        /\ ~risk_verdict.asked
        /\ now + steps * ClockStep <= StartClock + MaxTicks * ClockStep
        /\ now' = now + steps * ClockStep
        /\ UNCHANGED <<ctlVars, ledgerVars, recorded, callVars, traderVars>>

\* can_place_trade() asked of the RiskManager
CheckTrade ==
    \E stake \in AskedStakes :
        /\ ~risk_verdict.asked
        /\ LET v == can_place_trade(risk_manager, stake, now)
           IN  risk_verdict' = [asked |-> TRUE, stake |-> stake, time |-> now, last_opened |-> last_opened, allowed |-> v.allowed, reason |-> v.reason]
        /\ UNCHANGED <<ctlVars, now, last_opened, position_call, status_seen, recorded, callVars, traderVars>>

NextRisk ==
    \/ AddPosition
    \/ ClosePosition
    \/ Tick
    \/ CheckTrade

SpecRisk == InitRisk /\ [][NextRisk]_vars

(* ------- SpecPos: the positions of a RiskManager through its API ------- *)
PosIds == {1, 2}
\* entry price 100.00; contract 1 is opened with a stake of 10.00, contract 2
\* with 30.00 (take-profit 101.00 and 103.00, trailing level 102.00)
EntryPrice == 10000
PosStake(id) == IF id = 1 THEN 1000 ELSE 3000
\* prices fed to update_position: 99.40, 99.50, 100.50, 101.00, 102.00, 102.50, 103.00
Prices == {9940, 9950, 10050, 10100, 10200, 10250, 10300}
\* pnl of a close: a gain of 5.00, nothing, a loss of 5.00
PosPnls == {500, 0, -500}
\* confidence (percent) and volatility (hundredths) asked of the StakeSizer
SizerConfidences == {0, 100}
SizerVolatilities == {50, 200}

InitPos ==
    /\ is_trading_enabled = TRUE
    /\ auto_pause_enabled = TRUE
    /\ safety_thresholds = DefaultThresholds
    /\ session_stats = SessionStatsInit
    /\ risk_manager = RiskManagerInit
    /\ last_pause_reason = "none"
    /\ now = StartClock
    /\ call = NoCall
    /\ decision = NoDecision
    /\ is_running = FALSE
    /\ tasks = << >>
    /\ trader_risk_manager = RiskManagerInit
    /\ has_demo_balance = FALSE
    /\ after_stop = << >>
    /\ risk_verdict = NoVerdict
    /\ last_opened = -1
    /\ recorded = NoneRecorded
    /\ position_call = NoPositionCall
    /\ status_seen = NoStatusSeen

posUnchanged == <<is_trading_enabled, auto_pause_enabled, safety_thresholds, session_stats, last_pause_reason, now, risk_verdict, last_opened, status_seen, recorded, callVars, traderVars>>

\* add_position() for a contract the broker accepted
PosAdd ==
    \E id \in PosIds :
        /\ position_call.n < MaxCalls
        /\ risk_manager' = add_position(risk_manager, id, PosStake(id), EntryPrice, now)
        /\ position_call' = [n |-> position_call.n + 1, op |-> "add", contract_id |-> id, value |-> PosStake(id), returned |-> "None"]
        /\ UNCHANGED posUnchanged

\* update_position() with a price of the market
PosUpdate ==
    \E id \in PosIds, price \in Prices :
        /\ position_call.n < MaxCalls
        /\ LET r == update_position(risk_manager, id, price, 0, "open")
           IN  /\ risk_manager' = r.risk_manager
               /\ position_call' = [n |-> position_call.n + 1, op |-> "update", contract_id |-> id, value |-> price, returned |-> r.returned]
        /\ UNCHANGED posUnchanged

\* close_position() with the pnl of the contract
PosClose ==
    \E id \in PosIds, pnl \in PosPnls :
        /\ position_call.n < MaxCalls
        /\ risk_manager' = close_position(risk_manager, id, pnl)
        /\ position_call' = [n |-> position_call.n + 1, op |-> "close", contract_id |-> id, value |-> pnl,
                             returned |-> IF close_position_raises(risk_manager, id) THEN "KeyError" ELSE "None"]
        /\ UNCHANGED posUnchanged

\* reset_daily_stats() at the start of a trading day
PosReset ==
    /\ position_call.n < MaxCalls
    /\ risk_manager' = reset_daily_stats(risk_manager)
    /\ position_call' = [n |-> position_call.n + 1, op |-> "reset", contract_id |-> 0, value |-> 0, returned |-> "None"]
    /\ UNCHANGED posUnchanged

\* calculate_optimal_stake() of the RiskManager
PosStakeSize ==
    \E confidence \in SizerConfidences, volatility \in SizerVolatilities :
        /\ position_call.n < MaxCalls
        /\ LET r == risk_calculate_optimal_stake(risk_manager, confidence, volatility)
           IN  position_call' = [n |-> position_call.n + 1, op |-> "stake", contract_id |-> 0, value |-> r.stake, returned |-> r.raised]
        /\ UNCHANGED risk_manager
        /\ UNCHANGED posUnchanged

NextPos ==
    \/ PosAdd
    \/ PosUpdate
    \/ PosClose
    \/ PosReset
    \/ PosStakeSize

SpecPos == InitPos /\ [][NextPos]_vars

(* --------------- Spec: the AutoTrader and its trading loop -------------- *)
(* The AutoTrader is driven through start_auto_trading and                 *)
(* stop_auto_trading; nothing in either re-enables a paused controller.    *)
(* asyncio runs one coroutine at a time: a step of a coroutine runs from   *)
(* the await it was suspended at to the next await that really suspends.   *)
(* start_auto_trading suspends at trader.connect (live), at the balance    *)
(* query of _get_user_balance (live, no _demo_balance attribute), in       *)
(* _execute_trade (live), at the balance re-sync (live), at asyncio.sleep  *)
(* and at trader.close in the finally block (live).  The collaborators     *)
(* catch their own exceptions; the loop body raises on a strategy_config   *)
(* it cannot use (a missing key before the evaluation, an interval that is *)
(* not a number after it).                                                 *)
NewTask(demo) == [pc |-> "created", is_demo |-> demo, iterations |-> 0, trade_count |-> 0, result |-> "none"]
NoStopSeen == [stop_requested |-> FALSE, iterations |-> 0, evaluated |-> FALSE, submitted |-> FALSE, slept |-> FALSE]
SessionPcs == {"connect", "balance", "sleep_check", "broker", "sync", "sleep_trade", "closing"}
LoopPcs == {"balance", "sleep_check", "broker", "sync", "sleep_trade"}
Faults == {"none", "before_gate", "after_gate"}

\* what the collaborators may hand to one evaluation inside the loop
SessionCalls == { GoodCall, [GoodCall EXCEPT !.raw.loss_probability = 40] }

Init ==
    /\ is_trading_enabled = TRUE
    /\ auto_pause_enabled = TRUE
    /\ safety_thresholds = DefaultThresholds
    /\ session_stats = SessionStatsInit
    /\ risk_manager = RiskManagerInit
    /\ last_pause_reason = "none"
    /\ now = 0
    /\ call = NoCall
    /\ decision = NoDecision
    /\ is_running = FALSE
    /\ tasks = << >>
    /\ trader_risk_manager = RiskManagerInit
    /\ has_demo_balance = FALSE
    /\ after_stop = << >>
    /\ risk_verdict = NoVerdict
    /\ last_opened = -1
    /\ recorded = NoneRecorded
    /\ position_call = NoPositionCall
    /\ status_seen = NoStatusSeen

\* what a coroutine does is noted in after_stop once a stop() reached it
CountIn(as, t, field) == IF as[t].stop_requested THEN [as EXCEPT ![t][field] = @ + 1] ELSE as
NoteIn(as, t, field) == IF as[t].stop_requested THEN [as EXCEPT ![t][field] = TRUE] ELSE as

\* iterations begun by all coroutines together
RECURSIVE IterationsUpTo(_)
IterationsUpTo(n) == IF n = 0 THEN 0 ELSE tasks[n].iterations + IterationsUpTo(n - 1)
TotalIterations == IterationsUpTo(Len(tasks))

\* mutant: the handler only logs the error
on_loop_error_log_only(enabled, logged) == [is_trading_enabled |-> enabled, last_pause_reason |-> logged]

\* start_auto_trading, the except clause of the loop
on_loop_error(enabled, logged) == pause_trading("Critical error")

\* start_auto_trading, the finally clause: a live session awaits
\* trader.close() before it clears is_running
Finally(ts, t, iter, res, running) ==
    IF ts[t].is_demo
      THEN /\ is_running' = FALSE
           /\ tasks' = [ts EXCEPT ![t].pc = "done", ![t].iterations = iter, ![t].result = res]
      ELSE /\ is_running' = running
           /\ tasks' = [ts EXCEPT ![t].pc = "closing", ![t].iterations = iter, ![t].result = res]

\* _simulate_trade, then the 'pending' record of the submission that succeeded
simulate_trade(stats, enabled, auto_pause, logged, stake, win) ==
    LET pnl == IF win THEN (stake * 8) \div 10 ELSE -stake
        first == record_trade_outcome(stats, enabled, auto_pause, logged, IF win THEN "win" ELSE "loss", pnl)
    IN  record_trade_outcome(first.session_stats, first.is_trading_enabled, auto_pause, first.last_pause_reason, "pending", 0)

\* mutant: the loop goes on to the final check whatever the Decision says
trade_blocked_by_risk_only(trading_decision, final_risk_check) ==
    ~final_risk_check.allowed

\* The two `continue` branches of the loop body: the Decision does not
\* approve, or the final can_place_trade of the AutoTrader's RiskManager
\* does not allow the recommended stake.
trade_blocked(trading_decision, final_risk_check) ==
    ~trading_decision.execute_trade \/ ~final_risk_check.allowed

\* One iteration from the trade request to its next suspension.  fault says
\* where the body raises, c is what the collaborators hand to the
\* evaluation, win is the outcome of a demo trade.
Body(ts, t, running, iter, as, fault, c, win) ==
    LET r == should_execute_trade(is_trading_enabled, safety_thresholds, session_stats, risk_manager, now, c)
        stake == r.decision.recommended_stake
        final_risk_check == can_place_trade(trader_risk_manager, stake, now)
        evaluated == NoteIn(as, t, "evaluated")
        err == on_loop_error(is_trading_enabled, last_pause_reason)
    IN  IF fault = "before_gate"
          THEN /\ is_trading_enabled' = err.is_trading_enabled
               /\ last_pause_reason' = err.last_pause_reason
               /\ Finally(ts, t, iter, "error", running)
               /\ after_stop' = as
               /\ UNCHANGED <<session_stats, call, decision, recorded>>
        ELSE /\ call' = c
             /\ decision' = r.decision
             /\ IF fault = "after_gate"
                  THEN /\ is_trading_enabled' = err.is_trading_enabled
                       /\ last_pause_reason' = err.last_pause_reason
                       /\ session_stats' = r.session_stats
                       /\ Finally(ts, t, iter, "error", running)
                       /\ after_stop' = evaluated
                       /\ UNCHANGED recorded
                ELSE IF trade_blocked(r.decision, final_risk_check)
                  THEN /\ session_stats' = r.session_stats
                       /\ tasks' = [ts EXCEPT ![t].pc = "sleep_check", ![t].iterations = iter]
                       /\ is_running' = running
                       /\ after_stop' = NoteIn(evaluated, t, "slept")
                       /\ UNCHANGED <<is_trading_enabled, last_pause_reason, recorded>>
                ELSE IF ts[t].is_demo
                  THEN LET o == simulate_trade(r.session_stats, is_trading_enabled, auto_pause_enabled, last_pause_reason, stake, win)
                       IN  /\ session_stats' = o.session_stats
                           /\ is_trading_enabled' = o.is_trading_enabled
                           /\ last_pause_reason' = o.last_pause_reason
                           /\ recorded' = NoteOutcome(recorded, IF win THEN "win" ELSE "loss")
                           /\ tasks' = [ts EXCEPT ![t].pc = "sleep_trade", ![t].iterations = iter, ![t].trade_count = @ + 1]
                           /\ is_running' = running
                           /\ after_stop' = NoteIn(NoteIn(evaluated, t, "submitted"), t, "slept")
                ELSE /\ session_stats' = r.session_stats
                     /\ tasks' = [ts EXCEPT ![t].pc = "broker", ![t].iterations = iter]
                     /\ is_running' = running
                     /\ after_stop' = NoteIn(evaluated, t, "submitted")
                     /\ UNCHANGED <<is_trading_enabled, last_pause_reason, recorded>>

\* The loop from its `while self.is_running` to the next suspension.  ts and
\* as are the coroutines and their notes, running is the flag as the
\* coroutine reads it, hdb whether _demo_balance exists.
Iteration(ts, as, t, running, hdb, fault, c, win) ==
    IF ~running
      THEN /\ Finally(ts, t, ts[t].iterations, "exited", FALSE)
           /\ after_stop' = as
           /\ UNCHANGED <<is_trading_enabled, last_pause_reason, session_stats, call, decision, recorded>>
    ELSE /\ TotalIterations < MaxIter
         /\ IF ~ts[t].is_demo /\ ~hdb
              THEN /\ tasks' = [ts EXCEPT ![t].pc = "balance", ![t].iterations = @ + 1]
                   /\ after_stop' = CountIn(as, t, "iterations")
                   /\ UNCHANGED <<is_running, is_trading_enabled, last_pause_reason, session_stats, call, decision, recorded>>
              ELSE Body(ts, t, running, ts[t].iterations + 1, CountIn(as, t, "iterations"), fault, c, win)

\* start_auto_trading(), scheduled by a caller, from its first line to its
\* first suspension; demo when the caller passes no api_token.  A call on a
\* running AutoTrader logs a warning and returns.
Start ==
    \E demo \in BOOLEAN :
        /\ Len(tasks) < MaxTasks
        /\ IF is_running
             THEN UNCHANGED vars
           ELSE IF ~demo
             THEN /\ is_running' = TRUE
                  /\ tasks' = Append(tasks, [NewTask(demo) EXCEPT !.pc = "connect"])
                  /\ after_stop' = Append(after_stop, NoStopSeen)
                  /\ UNCHANGED <<ctlVars, now, ledgerVars, recorded, callVars, trader_risk_manager, has_demo_balance>>
           ELSE /\ has_demo_balance' = TRUE
                /\ \E fault \in Faults, c \in SessionCalls, win \in BOOLEAN : Iteration(Append(tasks, NewTask(demo)), Append(after_stop, NoStopSeen), Len(tasks) + 1, TRUE, TRUE, fault, c, win)
                /\ UNCHANGED <<auto_pause_enabled, safety_thresholds, risk_manager, now, ledgerVars, trader_risk_manager>>

\* trader.connect() returns
Connected(t) ==
    /\ tasks[t].pc = "connect"
    /\ \E ok \in BOOLEAN :
         IF ~ok
           THEN /\ is_running' = FALSE
                /\ tasks' = [tasks EXCEPT ![t].pc = "done", ![t].result = "connect_failed"]
                /\ UNCHANGED <<ctlVars, now, ledgerVars, recorded, callVars, trader_risk_manager, has_demo_balance, after_stop>>
           ELSE /\ \E fault \in Faults, c \in SessionCalls, win \in BOOLEAN : Iteration(tasks, after_stop, t, is_running, has_demo_balance, fault, c, win)
                /\ UNCHANGED <<auto_pause_enabled, safety_thresholds, risk_manager, now, ledgerVars, trader_risk_manager, has_demo_balance>>

\* trader.get_balance() of _get_user_balance returns: the body goes on
BalanceDone(t) ==
    /\ tasks[t].pc = "balance"
    /\ \E fault \in Faults, c \in SessionCalls, win \in BOOLEAN : Body(tasks, t, is_running, tasks[t].iterations, after_stop, fault, c, win)
    /\ UNCHANGED <<auto_pause_enabled, safety_thresholds, risk_manager, now, ledgerVars, trader_risk_manager, has_demo_balance>>

\* _execute_trade returns; the attempt is recorded, the balance re-sync starts
BrokerDone(t) ==
    /\ tasks[t].pc = "broker"
    /\ \E ok \in BOOLEAN :
         LET o == record_trade_outcome(session_stats, is_trading_enabled, auto_pause_enabled, last_pause_reason, IF ok THEN "pending" ELSE "failed", 0)
         IN  /\ session_stats' = o.session_stats
             /\ is_trading_enabled' = o.is_trading_enabled
             /\ last_pause_reason' = o.last_pause_reason
             /\ tasks' = [tasks EXCEPT ![t].pc = "sync", ![t].trade_count = IF ok THEN @ + 1 ELSE @]
    /\ UNCHANGED <<auto_pause_enabled, safety_thresholds, risk_manager, now, ledgerVars, recorded, callVars, is_running, trader_risk_manager, has_demo_balance, after_stop>>

\* the balance re-sync returns; the loop sleeps for the trade interval
SyncDone(t) ==
    /\ tasks[t].pc = "sync"
    /\ tasks' = [tasks EXCEPT ![t].pc = "sleep_trade"]
    /\ after_stop' = NoteIn(after_stop, t, "slept")
    /\ UNCHANGED <<ctlVars, now, ledgerVars, recorded, callVars, is_running, trader_risk_manager, has_demo_balance>>

\* asyncio.sleep() returns: `continue` or the end of the body, then `while`
WakeUp(t) ==
    /\ tasks[t].pc \in {"sleep_check", "sleep_trade"}
    /\ \E fault \in Faults, c \in SessionCalls, win \in BOOLEAN : Iteration(tasks, after_stop, t, is_running, has_demo_balance, fault, c, win)
    /\ UNCHANGED <<auto_pause_enabled, safety_thresholds, risk_manager, now, ledgerVars, trader_risk_manager, has_demo_balance>>

\* trader.close() returns in the finally clause
Closed(t) ==
    /\ tasks[t].pc = "closing"
    /\ is_running' = FALSE
    /\ tasks' = [tasks EXCEPT ![t].pc = "done"]
    /\ UNCHANGED <<ctlVars, now, ledgerVars, recorded, callVars, trader_risk_manager, has_demo_balance, after_stop>>

\* stop_auto_trading()
Stop ==
    /\ is_running' = FALSE
    /\ is_trading_enabled' = pause_trading("Manual stop requested").is_trading_enabled
    /\ last_pause_reason' = pause_trading("Manual stop requested").last_pause_reason
    /\ after_stop' = [t \in DOMAIN after_stop |-> IF tasks[t].pc \in SessionPcs THEN [after_stop[t] EXCEPT !.stop_requested = TRUE] ELSE after_stop[t]]
    /\ UNCHANGED <<auto_pause_enabled, safety_thresholds, session_stats, risk_manager, now, ledgerVars, recorded, callVars, tasks, trader_risk_manager, has_demo_balance>>

Next ==
    \/ Start
    \/ \E t \in DOMAIN tasks : Connected(t)
    \/ \E t \in DOMAIN tasks : BalanceDone(t)
    \/ \E t \in DOMAIN tasks : BrokerDone(t)
    \/ \E t \in DOMAIN tasks : SyncDone(t)
    \/ \E t \in DOMAIN tasks : WakeUp(t)
    \/ \E t \in DOMAIN tasks : Closed(t)
    \/ Stop

Spec == Init /\ [][Next]_vars

(* ----------------------- claims on the gate ---------------------------- *)
Evaluated == decision # NoDecision
GateReached == Evaluated /\ ~call.raises

\* the snapshot and verdict the gate was given in the evaluation held in call
SnapshotOfCall == analyze_market_safety(call.analysis_ok, call.raw)
SentimentOfCall == analyze_market_sentiment(call.overall_sentiment, call.window_status)
VerdictOfCall == can_place_trade(risk_manager, call.trade_request.amount, now)

\* the numbers of the checks that fail for the evaluation held in call
FailedChecks ==
    { k \in 1..11 : CheckFails(k, is_trading_enabled, safety_thresholds, session_stats,
                               SnapshotOfCall, SentimentOfCall, call.ensemble,
                               call.prediction, VerdictOfCall) }
LowestFailed == CHOOSE k \in FailedChecks : \A j \in FailedChecks : k <= j

\* C1: the gate rejects with the reason of the lowest-numbered failing check
\* of the fixed order (1)..(11), and approves exactly when no check fails.
C1_GateOrder ==
    GateReached =>
        IF FailedChecks = {} THEN decision.execute_trade
        ELSE ~decision.execute_trade /\ decision.reason = GateReason[LowestFailed]

\* a rejection for a middle check while a later check fails as well
C1_Witness ==
    /\ GateReached
    /\ FailedChecks # {}
    /\ LowestFailed = 5
    /\ 10 \in FailedChecks
    /\ decision.reason = "Loss probability too high"

\* C2: a snapshot with safe_to_trade = false never gets an approving Decision.
C2_UnsafeNeverApproved ==
    (Evaluated /\ ~SnapshotOfCall.safe_to_trade) => ~decision.execute_trade

\* the unsafe snapshot is the only objection and the gate rejects for it
C2_Witness ==
    /\ GateReached
    /\ FailedChecks = {3}
    /\ ~decision.execute_trade

\* C3: when the safety analysis failed and the fallback snapshot was used,
\* the evaluation does not approve.
C3_FallbackNeverApproved ==
    (Evaluated /\ SnapshotOfCall.fallback) => ~decision.execute_trade

\* C4: an evaluation in which a step raises returns the fully rejecting
\* Decision: not approved, stake 0, confidence 0, analysis-failed reason,
\* risk level CRITICAL.
C4_ExceptionRejects ==
    (Evaluated /\ call.raises) =>
        /\ ~decision.execute_trade
        /\ decision.recommended_stake = 0
        /\ decision.confidence = 0
        /\ decision.reason = "Analysis failed - safety first"
        /\ decision.risk_level = "CRITICAL"

\* a step raised although every check would have passed
C4_Witness ==
    /\ Evaluated
    /\ call.raises
    /\ FailedChecks = {}
    /\ decision.reason = "Analysis failed - safety first"

\* C5 as stated: with three or more consecutive losses the reason is always
\* the consecutive-loss one.
C5_AlwaysLossProtection ==
    (Evaluated /\ session_stats.current_consecutive_losses >= 3) =>
        decision.reason = "Too many consecutive losses"

\* C5 amended: with three or more consecutive losses the Decision never
\* approves, and its reason is the consecutive-loss one whenever the gate is
\* reached and checks (1)..(8) pass, whatever checks (10) and (11) say.
C5_LossProtection ==
    (Evaluated /\ session_stats.current_consecutive_losses >= 3) =>
        /\ ~decision.execute_trade
        /\ (GateReached /\ FailedChecks \cap (1..8) = {}) =>
               decision.reason = "Too many consecutive losses"

\* the loss streak rejects although the ensemble check fails too
C5_Witness ==
    /\ GateReached
    /\ session_stats.current_consecutive_losses >= 3
    /\ FailedChecks # {}
    /\ LowestFailed = 9
    /\ 10 \in FailedChecks
    /\ decision.reason = "Too many consecutive losses"

(* --------------------- claims on the controller ------------------------- *)
\* C6: with auto-pause on, recording a loss leaves the enabled flag as it was
\* while the streak it produces is below five, and pauses trading at once
\* when the streak reaches five.
C6_AutoPauseAtFive ==
    [][ (session_stats'.losses = session_stats.losses + 1 /\ auto_pause_enabled) =>
            IF session_stats'.current_consecutive_losses >= 5
              THEN /\ ~is_trading_enabled'
                   /\ last_pause_reason' = "Auto-paused after 5 consecutive losses"
              ELSE /\ is_trading_enabled' = is_trading_enabled
                   /\ last_pause_reason' = last_pause_reason ]_vars

\* five losses in a row from a fresh controller: paused by the auto-pause
C6_Witness ==
    /\ session_stats.losses = 5
    /\ session_stats.wins = 0
    /\ session_stats.current_consecutive_losses = 5
    /\ ~is_trading_enabled
    /\ last_pause_reason = "Auto-paused after 5 consecutive losses"

(* ----------------------- claims on the session -------------------------- *)
\* C7: at most one trading loop is active per AutoTrader: whenever two
\* coroutines are inside the loop, neither has begun an iteration since a
\* stop() reached it (the older one only waits to see that it was stopped).
C7_SingleLoop ==
    \A a, b \in DOMAIN tasks :
        (a # b /\ tasks[a].pc \in LoopPcs /\ tasks[b].pc \in LoopPcs) =>
            after_stop[a].iterations = 0

\* C8: after stop() on a running session the loop begins at most one
\* further iteration.
C8_StopWithinOneIteration ==
    \A t \in DOMAIN tasks : after_stop[t].stop_requested => after_stop[t].iterations <= 1

\* C9: once stop() was requested while the loop was suspended, the loop
\* evaluates no gate, submits nothing and sleeps no more in that session.
C9_NoWorkAfterStop ==
    \A t \in DOMAIN tasks :
        after_stop[t].stop_requested =>
            /\ ~after_stop[t].evaluated
            /\ ~after_stop[t].submitted
            /\ ~after_stop[t].slept

\* C10: an exception raised inside the loop body is caught at the loop
\* boundary: in the step that raises, trading is paused with the
\* critical-error reason and the coroutine goes on to its finally clause
\* (it returns, nothing propagates); when that coroutine ends, is_running
\* is false.
C10_LoopErrorHandled ==
    [][ \A t \in DOMAIN tasks' :
          /\ ( /\ tasks'[t].result = "error"
               /\ (t \in DOMAIN tasks => tasks[t].result # "error") )
                 => /\ ~is_trading_enabled'
                    /\ last_pause_reason' = "Critical error"
                    /\ tasks'[t].pc \in {"closing", "done"}
          /\ ( /\ tasks'[t].result = "error"
               /\ tasks'[t].pc = "done"
               /\ (t \in DOMAIN tasks => tasks[t].pc # "done") )
                 => ~is_running' ]_vars

C10_Witness ==
    \E t \in DOMAIN tasks :
        /\ tasks[t].result = "error"
        /\ tasks[t].pc = "done"
        /\ ~tasks[t].is_demo
        /\ tasks[t].iterations >= 1
        /\ ~is_running
        /\ ~is_trading_enabled
        /\ last_pause_reason = "Critical error"

(* --------------------- claims on the RiskManager ------------------------ *)
\* C11: the drawdown percentage is never negative and never above 100,
\* whatever positions were closed with whatever pnl.
C11_DrawdownWithinRange ==
    /\ calculate_drawdown(risk_manager) >= 0
    /\ calculate_drawdown(risk_manager) <= 100

\* C12: the drawdown is measured from the highest balance reached (the
\* ratcheted high-water mark kept in highest_balance).
C12_DrawdownFromHighWaterMark ==
    LET stats == risk_manager.daily_stats
        current_balance == stats.daily_start_balance + stats.total_pnl
    IN  stats.trades > 0 =>
            calculate_drawdown(risk_manager) =
                Max(0, ((stats.highest_balance - current_balance) * 100) \div stats.highest_balance)

\* the six checks of the claim, in its order, on the state the verdict was given in
RiskReason ==
    << "Account balance is zero or negative", "Maximum concurrent trades reached",
       "Stake exceeds maximum allowed", "Maximum drawdown reached",
       "Trailing Stop Loss Percent must be greater than 0", "Minimum trade interval not met" >>
RiskCheckFails(k) ==
    LET stats == risk_manager.daily_stats
        open == risk_manager.active_positions
    IN  CASE k = 1 -> stats.daily_start_balance + stats.total_pnl <= 0
          [] k = 2 -> Cardinality(DOMAIN open) >= risk_manager.max_concurrent_trades
          [] k = 3 -> risk_verdict.stake > risk_manager.max_stake
          [] k = 4 -> calculate_drawdown(risk_manager) >= risk_manager.max_drawdown_percent
          [] k = 5 -> risk_manager.trailing_stop_loss_percent <= 0
          [] k = 6 -> \E i \in DOMAIN open : risk_verdict.time - open[i].entry_time < MIN_TRADE_INTERVAL
RiskFailed == {k \in 1..6 : RiskCheckFails(k)}
FirstRiskFailed == CHOOSE k \in RiskFailed : \A j \in RiskFailed : k <= j

\* C13: can_place_trade refuses with the reason of the first failing check,
\* in the order balance, open positions, stake, drawdown, trailing stop,
\* spacing, and allows the trade only when no check fails.
C13_FirstFailingCheck ==
    risk_verdict.asked =>
        IF RiskFailed = {}
          THEN risk_verdict.allowed
          ELSE /\ ~risk_verdict.allowed
               /\ risk_verdict.reason = RiskReason[FirstRiskFailed]

\* three positions open and a stake above the limit: the cap is reported
C13_Witness ==
    /\ risk_verdict.asked
    /\ Cardinality(DOMAIN risk_manager.active_positions) = MAX_CONCURRENT_TRADES
    /\ {2, 3, 6} \subseteq RiskFailed
    /\ 1 \notin RiskFailed
    /\ ~risk_verdict.allowed
    /\ risk_verdict.reason = "Maximum concurrent trades reached"

\* C14: can_place_trade refuses while less than the minimum interval has
\* passed since the most recent add_position, open or closed.
C14_SpacingSinceLastOpened ==
    ( /\ risk_verdict.asked
      /\ risk_verdict.last_opened > 0
      /\ risk_verdict.time - risk_verdict.last_opened < MIN_TRADE_INTERVAL )
        => ~risk_verdict.allowed

(* ------------------ claims on the session's records --------------------- *)
OpenPositions(rm) == Cardinality(DOMAIN rm.active_positions)
TradeCountBefore(t) == IF t \in DOMAIN tasks THEN tasks[t].trade_count ELSE 0

\* C15: a step in which a submission succeeds (the coroutine's trade_count
\* grows) registers a position with a RiskManager of the session.
C15_PositionRegistered ==
    [][ \A t \in DOMAIN tasks' :
          tasks'[t].trade_count > TradeCountBefore(t) =>
              \/ OpenPositions(trader_risk_manager') > OpenPositions(trader_risk_manager)
              \/ OpenPositions(risk_manager') > OpenPositions(risk_manager) ]_vars

\* C16: the step that records a failed broker submission (the broker call
\* returns and trade_count stays) leaves every counter of session_stats as
\* it was and does not pause trading.
C16_FailedAttemptNotALoss ==
    [][ \A t \in DOMAIN tasks :
          ( /\ tasks[t].pc = "broker"
            /\ tasks'[t].pc = "sync"
            /\ tasks'[t].trade_count = tasks[t].trade_count )
              => /\ session_stats' = session_stats
                 /\ is_trading_enabled' = is_trading_enabled
                 /\ last_pause_reason' = last_pause_reason ]_vars

\* a live coroutine whose only submission failed: nothing counted, not paused
C16_Witness ==
    \E t \in DOMAIN tasks :
        /\ ~tasks[t].is_demo
        /\ tasks[t].pc = "sync"
        /\ tasks[t].trade_count = 0
        /\ session_stats.trades_executed = 1
        /\ session_stats.losses = 0
        /\ session_stats.current_consecutive_losses = 0
        /\ is_trading_enabled

(* ------------------- claims on the gate's counters ---------------------- *)
\* C17: every evaluation is counted: an approving one in trades_executed,
\* a rejecting one (the analysis-failed rejection included) in
\* trades_prevented, with trades_executed left as it was.  The counters of
\* SpecGate start at 0.
C17_EveryEvaluationCounted ==
    Evaluated =>
        IF decision.execute_trade
          THEN session_stats.trades_executed = 1
          ELSE /\ session_stats.trades_prevented >= 1
               /\ session_stats.trades_executed = 0

(* ---------------------- claims on the stake ----------------------------- *)
\* C18 as claimed: an approving Decision recommends a stake within
\* [0.5, max_stake], whatever max_stake is configured.
C18_StakeWithinBounds ==
    (Evaluated /\ decision.execute_trade) =>
        /\ decision.recommended_stake >= MIN_STAKE
        /\ decision.recommended_stake <= risk_manager.max_stake

\* the limit is exceeded only when it is below the minimum stake of 0.5
StakeWithinBoundsAboveFloor ==
    (Evaluated /\ decision.execute_trade /\ risk_manager.max_stake >= MIN_STAKE) =>
        /\ decision.recommended_stake >= MIN_STAKE
        /\ decision.recommended_stake <= risk_manager.max_stake

\* the stake the controller computes for the evaluated request when the
\* safety score, the prediction confidence and the profit probability are
\* score, confidence and profit (percent)
StakeFor(score, confidence, profit) ==
    calculate_optimal_stake(risk_manager.max_stake,
        [SnapshotOfCall EXCEPT !.safety_score = score, !.profit_probability = profit],
        SentimentOfCall, [confidence |-> confidence], call.trade_request)
\* the stake of the Decision the gate returns for the same request and
\* the same controller when the three signals have these values
DecisionStakeFor(score, confidence, profit) ==
    should_execute_trade(is_trading_enabled, safety_thresholds, SessionStatsInit, risk_manager, now,
        [call EXCEPT !.raw.safety_score = score, !.raw.profit_probability = profit,
                     !.prediction.confidence = confidence]).decision.recommended_stake
Levels == {0, 25, 50, 60, 75, 90, 100}

\* C19: with the other inputs fixed, the recommended stake never falls when
\* the safety score, the prediction confidence or the profit probability
\* rises, in the stake computation and in the Decision of the gate (a
\* rejection recommends 0); the stake of an approving Decision is the one so
\* computed.
C19_StakeMonotonic ==
    LET s0 == call.raw.safety_score
        c0 == call.prediction.confidence
        p0 == call.raw.profit_probability
    IN  /\ \A a, b \in Levels :
              a <= b => /\ StakeFor(a, c0, p0) <= StakeFor(b, c0, p0)
                        /\ StakeFor(s0, a, p0) <= StakeFor(s0, b, p0)
                        /\ StakeFor(s0, c0, a) <= StakeFor(s0, c0, b)
                        /\ DecisionStakeFor(a, c0, p0) <= DecisionStakeFor(b, c0, p0)
                        /\ DecisionStakeFor(s0, a, p0) <= DecisionStakeFor(s0, b, p0)
                        /\ DecisionStakeFor(s0, c0, a) <= DecisionStakeFor(s0, c0, b)
        /\ (Evaluated /\ decision.execute_trade) =>
              /\ decision.recommended_stake = StakeFor(s0, c0, p0)
              /\ decision.recommended_stake = DecisionStakeFor(s0, c0, p0)

\* an approved request whose stake is strictly between those of a lower and
\* of a higher safety score
C19_Witness ==
    /\ Evaluated
    /\ decision.execute_trade
    /\ call.raw.safety_score = 75
    /\ StakeFor(60, call.prediction.confidence, call.raw.profit_probability) < decision.recommended_stake
    /\ decision.recommended_stake < StakeFor(90, call.prediction.confidence, call.raw.profit_probability)

(* ------------------ claims on the outcome records ----------------------- *)
\* the streaks that wins recorded wins and losses recorded losses, applied
\* one after another in some order, can leave
RECURSIVE StreaksAfter(_, _)
StreaksAfter(wins, losses) ==
    IF wins = 0 /\ losses = 0 THEN {0}
    ELSE (IF wins > 0 THEN {0} ELSE {})
         \cup (IF losses > 0 THEN {k + 1 : k \in StreaksAfter(wins, losses - 1)} ELSE {})

\* C20: whatever the interleaving of the coroutines that record outcomes,
\* no update is lost: wins and losses equal the numbers of 'win' and 'loss'
\* records issued, and current_consecutive_losses is a streak that these
\* records leave when applied one after another in some order.
C20_NoLostUpdate ==
    /\ session_stats.wins = recorded.win
    /\ session_stats.losses = recorded.loss
    /\ session_stats.current_consecutive_losses \in StreaksAfter(recorded.win, recorded.loss)

\* two coroutines have written the statistics: one recorded the losses of
\* its demo trades, another one, started after a stop, had its evaluation
\* counted while the first was still in its loop
C20_Witness ==
    \E t, u \in DOMAIN tasks :
        /\ t # u
        /\ tasks[t].is_demo
        /\ tasks[t].trade_count >= 2
        /\ tasks[t].pc \in LoopPcs
        /\ tasks[u].pc = "sleep_check"
        /\ recorded.loss = 2
        /\ session_stats.current_consecutive_losses = 2
        /\ session_stats.trades_prevented >= 1

(* --------------------- claims on the positions -------------------------- *)
\* the step is call number n + 1 of SpecPos, and it is a call of op
PosCalled(op) ==
    /\ position_call'.n = position_call.n + 1
    /\ position_call'.op = op

\* C21: close_position on an open position adds its pnl to total_pnl once,
\* counts one win (pnl > 0) or one loss, leaves highest_balance at the
\* higher of its old value and the new balance, and removes the position;
\* on an id that is not open it changes nothing.
C21_ClosePositionOnce ==
    [][ PosCalled("close") =>
          LET id == position_call'.contract_id
              pnl == position_call'.value
              before == risk_manager.daily_stats
              after == risk_manager'.daily_stats
              open == risk_manager.active_positions
          IN  IF id \in DOMAIN open
                THEN /\ after.total_pnl = before.total_pnl + pnl
                     /\ after.trades = before.trades + 1
                     /\ after.wins = before.wins + (IF pnl > 0 THEN 1 ELSE 0)
                     /\ after.losses = before.losses + (IF pnl > 0 THEN 0 ELSE 1)
                     /\ "highest_balance" \in DOMAIN after
                     /\ after.highest_balance >= after.daily_start_balance + after.total_pnl
                     /\ "highest_balance" \in DOMAIN before =>
                            after.highest_balance = Max(before.highest_balance,
                                                        after.daily_start_balance + after.total_pnl)
                     /\ DOMAIN risk_manager'.active_positions = DOMAIN open \ {id}
                     /\ \A i \in DOMAIN open \ {id} : risk_manager'.active_positions[i] = open[i]
                     /\ position_call'.returned = "None"
                ELSE risk_manager' = risk_manager ]_vars

\* the three levels of an open position, in hundredths of a cent, from the
\* values it was added with and the percentages of the RiskManager
StopLossPrice(rm, pos) == pos.entry_price * 100 - pos.initial_stake * rm.stop_loss_percent
TrailingLevel(rm, pos) == pos.entry_price * (100 + rm.trailing_stop_loss_percent)
TakeProfitPrice(rm, pos) == pos.entry_price * 100 + pos.initial_stake * rm.take_profit_percent

\* C22: the stop-loss price of a position added with entry price e and
\* stake s is e - s * (stop_loss_percent / 100), and update_position with a
\* price at or below it returns the stop-loss trigger.
C22_StopLossTrigger ==
    [][ /\ \A i \in DOMAIN risk_manager'.active_positions :
              risk_manager'.active_positions[i].stop_loss =
                  StopLossPrice(risk_manager', risk_manager'.active_positions[i])
        /\ ( /\ PosCalled("update")
             /\ position_call'.contract_id \in DOMAIN risk_manager.active_positions
             /\ position_call'.value * 100 <=
                    StopLossPrice(risk_manager, risk_manager.active_positions[position_call'.contract_id]) )
               => position_call'.returned = "stop_loss" ]_vars

\* entry 100.00, stake 10.00, 5%: the price 99.40 is below 99.50 and triggers
C22_Witness ==
    /\ position_call.op = "update"
    /\ position_call.contract_id = 1
    /\ position_call.value = 9940
    /\ position_call.returned = "stop_loss"
    /\ 1 \in DOMAIN risk_manager.active_positions
    /\ risk_manager.active_positions[1].entry_price = 10000
    /\ risk_manager.active_positions[1].initial_stake = 1000
    /\ risk_manager.active_positions[1].stop_loss = 995000

\* C30: update_position returns the first trigger that fires in the order
\* stop-loss, trailing stop, take-profit; a price at or below the fixed
\* trailing level entry_price * (1 + trailing_stop_loss_percent / 100)
\* returns stop-loss or trailing stop, and take-profit is returned only
\* above that level and at or above the take-profit price.  On an id that
\* is not open it returns no trigger and changes nothing.
C30_TriggerOrder ==
    [][ PosCalled("update") =>
          LET id == position_call'.contract_id
              price == position_call'.value * 100
              returned == position_call'.returned
          IN  IF id \notin DOMAIN risk_manager.active_positions
                THEN returned = "None" /\ risk_manager' = risk_manager
              ELSE LET pos == risk_manager.active_positions[id]
                       stop == price <= StopLossPrice(risk_manager, pos)
                       trail == price <= TrailingLevel(risk_manager, pos)
                       profit == price >= TakeProfitPrice(risk_manager, pos)
                   IN  /\ returned = IF stop THEN "stop_loss"
                                     ELSE IF trail THEN "trailing_stop_loss"
                                     ELSE IF profit THEN "take_profit"
                                     ELSE "None"
                       /\ trail => returned \in {"stop_loss", "trailing_stop_loss"}
                       /\ returned = "take_profit" => ~trail /\ profit ]_vars

\* a price at the take-profit price of the position, but not above the
\* trailing level: the trailing stop is returned
C30_Witness ==
    /\ position_call.op = "update"
    /\ position_call.returned = "trailing_stop_loss"
    /\ position_call.contract_id \in DOMAIN risk_manager.active_positions
    /\ position_call.value * 100 >=
           TakeProfitPrice(risk_manager, risk_manager.active_positions[position_call.contract_id])

\* C24: calculate_optimal_stake of the RiskManager returns a stake for
\* every confidence in [0, 1] and volatility above 0, and the stake is at
\* most max_stake.
C24_SizerWithinCap ==
    position_call.op = "stake" =>
        /\ position_call.returned = "none"
        /\ position_call.value <= risk_manager.max_stake

(* ----------------- claims on the session's statistics ------------------- *)
\* C23: the counters of session_stats start from zero when a session is
\* started (a live start suspends in connect() before anything is counted,
\* a demo start runs on to the end of its first iteration, which counts one
\* evaluation, a rejection possibly twice, and at most one outcome), and no
\* other step resets them.
C23_StatsResetAtStart ==
    [][ IF Len(tasks') = Len(tasks) + 1
          THEN IF tasks'[Len(tasks')].pc = "connect"
                 THEN session_stats' = SessionStatsInit
                 ELSE /\ session_stats'.trades_executed <= 1
                      /\ session_stats'.trades_prevented <= 2
                      /\ session_stats'.wins + session_stats'.losses <= 1
                      /\ session_stats'.max_consecutive_losses <= 1
          ELSE /\ session_stats'.trades_executed >= session_stats.trades_executed
               /\ session_stats'.trades_prevented >= session_stats.trades_prevented
               /\ session_stats'.wins >= session_stats.wins
               /\ session_stats'.losses >= session_stats.losses
               /\ session_stats'.max_consecutive_losses >= session_stats.max_consecutive_losses ]_vars

(* ----------------------- claims on the status --------------------------- *)
\* C25: get_trading_status changes nothing of the controller, and a call
\* that finds the controller as the last call found it returns what that
\* call returned.
C25_StatusIdempotent ==
    [][ status_seen'.n = status_seen.n + 1 =>
          /\ ctlVars' = ctlVars
          /\ ( /\ status_seen.n > 0
               /\ status_seen.of = <<is_trading_enabled, auto_pause_enabled, safety_thresholds, session_stats>> )
                 => status_seen'.status = status_seen.status ]_vars

\* two calls, the second on a controller that recorded outcomes and is as
\* the first call found it
C25_Witness ==
    /\ status_seen.n = 2
    /\ status_seen.of = <<is_trading_enabled, auto_pause_enabled, safety_thresholds, session_stats>>
    /\ status_seen.status.session_stats.total_trades = 2
    /\ status_seen.status.session_stats.stats.current_consecutive_losses = 1

(* ---------------------- claims on the contract -------------------------- *)
\* the candidates of the evaluated call: the alternatives (the ensemble's
\* hint and the signal contracts) and the original proposal at 0.5
Alternatives ==
    (IF call.ensemble.present
       THEN {[contract_type |-> call.ensemble.contract_type, confidence |-> call.ensemble.confidence]}
       ELSE {})
    \cup {[contract_type |-> call.signal_contracts[i].type, confidence |-> call.signal_contracts[i].strength] :
             i \in DOMAIN call.signal_contracts}
OriginalProposal == [contract_type |-> call.trade_request.contract_type, confidence |-> 50]

\* C26: on approval the optimized contract is a candidate of the highest
\* confidence among the ensemble's hint, the signal contracts and the
\* original proposal, with the ensemble's duration when the ensemble is that
\* candidate; when no alternative is above the original proposal, the
\* original contract type and duration are kept.
C26_BestContract ==
    (Evaluated /\ decision.execute_trade) =>
        LET chosen == decision.optimized_contract
            pick == [contract_type |-> chosen.contract_type, confidence |-> chosen.confidence]
        IN  /\ pick \in Alternatives \cup {OriginalProposal}
            /\ \A c \in Alternatives \cup {OriginalProposal} : c.confidence <= chosen.confidence
            /\ ( /\ call.ensemble.confidence > OriginalProposal.confidence
                 /\ \A i \in DOMAIN call.signal_contracts :
                        call.signal_contracts[i].strength <= call.ensemble.confidence ) =>
                   /\ chosen.contract_type = call.ensemble.contract_type
                   /\ chosen.duration = call.ensemble.duration
            /\ (\A a \in Alternatives : a.confidence <= OriginalProposal.confidence) =>
                   /\ chosen.contract_type = call.trade_request.contract_type
                   /\ chosen.duration = call.trade_request.duration

\* an approval in which a signal contract is above the ensemble's hint and
\* the proposal, and is chosen
C26_Witness ==
    /\ Evaluated
    /\ decision.execute_trade
    /\ call.ensemble.confidence = 85
    /\ call.trade_request.duration = 10
    /\ decision.optimized_contract.contract_type = "DIGITEVEN"
    /\ decision.optimized_contract.confidence = 95
    /\ call.trade_request.contract_type = "DIGITODD"

(* ------------------ claims on the prevented counter --------------------- *)
\* C28: an evaluation the gate rejects for unsafe conditions (check 3 is the
\* first that fails) raises trades_prevented by 2, once in the branch and
\* once in the update after the evaluation; a rejection by any other check
\* raises it by 1.
C28_UnsafeCountedTwice ==
    (GateReached /\ ~decision.execute_trade) =>
        session_stats.trades_prevented = IF LowestFailed = 3 THEN 2 ELSE 1

\* an unsafe snapshot rejected with the counter at 2
C28_Witness ==
    /\ GateReached
    /\ FailedChecks # {}
    /\ LowestFailed = 3
    /\ decision.reason = "Loss prevention block"
    /\ session_stats.trades_prevented = 2

(* ------------------- claims on the loss streak -------------------------- *)
\* the gate would approve some proposal the loop can make now
CanApprove ==
    \E c \in SessionCalls :
        should_execute_trade(is_trading_enabled, safety_thresholds, session_stats,
                             risk_manager, now, c).decision.execute_trade

\* C27: a streak of three or four losses throttles and does not stop: while
\* trading is enabled and the streak is below the five of the auto-pause, an
\* iteration of the running session can still have a trade approved.
C27_ThrottleOnly ==
    (/\ is_trading_enabled
     /\ session_stats.current_consecutive_losses >= 3
     /\ session_stats.current_consecutive_losses < AUTO_PAUSE_LOSSES)
        => CanApprove

\* what the loop does instead: the streak it records never passes three, so
\* the auto-pause at five is never reached by a session alone
StreakStopsAtThree ==
    session_stats.current_consecutive_losses <= 3

(* ------------------- claims on the submitted trades --------------------- *)
\* coroutine t hands a trade to the broker, or simulates it, in this step
Submits(t) ==
    /\ t \in DOMAIN tasks'
    /\ IF tasks'[t].is_demo
         THEN tasks'[t].trade_count > (IF t \in DOMAIN tasks THEN tasks[t].trade_count ELSE 0)
         ELSE tasks'[t].pc = "broker" /\ (t \in DOMAIN tasks => tasks[t].pc # "broker")

====
